---- MODULE Spec2Model ----
(***************************************************************************)
(* Model of updated_inventory_system.py: a module-level stock table        *)
(* (stock_data), the operations add_item, remove_item, get_qty, load_data, *)
(* save_data, print_data, check_low_items, and main().                     *)
(*                                                                         *)
(* The module is either run as a script (line 149: main() runs, then the   *)
(* process exits) or imported, in which case a caller invokes the          *)
(* operations in any order with any arguments.                             *)
(*                                                                         *)
(* Besides the program state (stock_data, the files), the state records    *)
(* what the most recent call was and did: its arguments (call), what it    *)
(* printed (out), what it returned (ret), the exception it propagated      *)
(* (raised) and the final value of add_item's local `logs`.                *)
(***************************************************************************)
EXTENDS Integers, Sequences, FiniteSets, TLC

VARIABLES
    stock_data,   \* the dict of line 11, in insertion (= iteration) order
    fs,           \* the file system: path -> file content
    pc,           \* "imported", or the line of main() about to run, or "exit"
    call,         \* the most recent call and its arguments
    raised,       \* exception the most recent call propagated ("none" if it returned)
    out,          \* lines the most recent call printed
    ret,          \* value the most recent call returned
    logs,         \* add_item's local `logs` when the most recent call ended
    before,       \* history: stock_data as it was when the most recent call began
    added,        \* history: per item, the sum of the accepted add_item quantities
    pure          \* history: only add_item calls and queries since the empty table

vars == <<stock_data, fs, pc, call, raised, out, ret, logs, before, added, pure>>

----------------------------------------------------------------------------
(* Bounds of the model *)

\* largest quantity the imported-mode caller lets an item reach
MaxQty == 2

----------------------------------------------------------------------------
(* Python values that are passed as arguments *)

PyStr(s) == [t |-> "str", s |-> s, n |-> 0]
PyInt(n) == [t |-> "int", s |-> "", n |-> n]
PyBool(b) == [t |-> "bool", s |-> "", n |-> IF b THEN 1 ELSE 0]
PyNone == [t |-> "NoneType", s |-> "", n |-> 0]

\* isinstance(x, str)
IsStr(x) == x.t = "str"

\* isinstance(x, (int, float)): bool is a subclass of int
IsNumber(x) == x.t \in {"int", "bool"}

\* a list passed (or not) as add_item's `logs`
NoLogs == [given |-> FALSE, list |-> <<>>]
LogList(l) == [given |-> TRUE, list |-> l]

----------------------------------------------------------------------------
(* dict operations on an insertion-ordered table of [item, qty] entries *)

Keys(t) == {t[i].item : i \in DOMAIN t}

\* `k in t` for an argument k: only a str can equal a key
HasKey(t, k) == IsStr(k) /\ k.s \in Keys(t)

IndexOf(t, s) == CHOOSE i \in DOMAIN t : t[i].item = s

\* t.get(k, d)
DictGet(t, k, d) == IF HasKey(t, k) THEN t[IndexOf(t, k.s)].qty ELSE d

\* t[s] = v : an existing key keeps its place, a new key goes last
DictSet(t, s, v) ==
    IF s \in Keys(t)
    THEN [t EXCEPT ![IndexOf(t, s)].qty = v]
    ELSE Append(t, [item |-> s, qty |-> v])

\* del t[s]
DictDel(t, s) == SelectSeq(t, LAMBDA e : e.item # s)

----------------------------------------------------------------------------
(* What a call leaves behind *)

Result(t, exc, printed, lg, value) ==
    [table |-> t, raised |-> exc, out |-> printed, logs |-> lg, ret |-> value]

\* returned values: None, a number, a list of item names
RetNone == [t |-> "NoneType", n |-> 0, l |-> <<>>]
RetInt(n) == [t |-> "int", n |-> n, l |-> <<>>]
RetList(l) == [t |-> "list", n |-> 0, l |-> l]

\* a printed line: the format string of the print call and its arguments
Line(fmt, item, qty) == [fmt |-> fmt, item |-> item, qty |-> qty]

NegativeWarning(item) ==
    Line("Warning: Negative quantity for {item} ignored.", item, PyNone)

MissingWarning(item) ==
    Line("Warning: Tried to remove missing item '{item}'", item, PyNone)

\* a log record; datetime.now() is kept as the token "now"
LogEntry(item, qty) == [at |-> "now", fmt |-> "Added {qty} of {item}", item |-> item, qty |-> qty]

----------------------------------------------------------------------------
(* add_item, lines 14-34 *)

AddRejectsTypeMutant(item, qty) == ~IsStr(item) /\ ~IsNumber(qty)

\* line 28
AddRejectsType(item, qty) == ~IsStr(item) \/ ~IsNumber(qty)

AddRejectsNegativeMutant(qty) == FALSE

\* line 30
AddRejectsNegative(qty) == qty.n < 0

Overwritten(t, item, qty) == DictSet(t, item.s, qty.n)

\* line 33
Incremented(t, item, qty) == DictSet(t, item.s, DictGet(t, item, 0) + qty.n)

add_item(t, item, qty, lg) ==
    LET l0 == IF lg.given THEN lg.list ELSE <<>>
    IN  IF AddRejectsType(item, qty)
        THEN Result(t, "none", <<>>, l0, RetNone)
        ELSE IF AddRejectsNegative(qty)
        THEN Result(t, "none", <<NegativeWarning(item)>>, l0, RetNone)
        ELSE Result(Incremented(t, item, qty), "none", <<>>,
                    Append(l0, LogEntry(item, qty)), RetNone)

----------------------------------------------------------------------------
(* remove_item, lines 37-53 *)

RaisesKeyErrorMutant(t, item) == FALSE

\* line 49: stock_data[item] raises KeyError for an absent item
RaisesKeyError(t, item) == ~HasKey(t, item)

RemoveDeletesMutant(v) == v < 0

\* line 50
RemoveDeletes(v) == v <= 0

remove_item(t, item, qty) ==
    IF RaisesKeyError(t, item)
    THEN Result(t, "none", <<MissingWarning(item)>>, <<>>, RetNone)
    ELSE IF ~IsNumber(qty)
    THEN \* int - str: TypeError, raised before the assignment and not caught
         Result(t, "TypeError", <<>>, <<>>, RetNone)
    ELSE LET v == DictGet(t, item, 0) - qty.n
             t1 == DictSet(t, item.s, v)
         IN  Result(IF RemoveDeletes(v) THEN DictDel(t1, item.s) ELSE t1,
                    "none", <<>>, <<>>, RetNone)

----------------------------------------------------------------------------
(* get_qty, line 66; check_low_items, line 124; print_data, lines 109-111 *)

get_qty(t, item) == DictGet(t, item, 0)

IsLowMutant(qty, threshold) == qty <= threshold

IsLow(qty, threshold) == qty < threshold

check_low_items(t, threshold) ==
    LET low == SelectSeq(t, LAMBDA e : IsLow(e.qty, threshold))
    IN  [i \in DOMAIN low |-> low[i].item]

print_data(t) ==
    <<Line("Items Report", PyNone, PyNone)>>
    \o [i \in DOMAIN t |-> Line("{item} -> {qty}", PyStr(t[i].item), PyInt(t[i].qty))]

----------------------------------------------------------------------------
(* JSON text, as json.dump writes it and json.load reads it.                *)
(* A file holds [kind, elems]: an object of "key": number members, an array *)
(* whose elements are ["key", number] pairs or bare numbers, a bare number, *)
(* or text that is not JSON.  A number is its decimal literal.              *)

NoFile == [kind |-> "nofile", elems |-> <<>>]

RECURSIVE Digits(_)
LastDigitOnly(n) == <<n % 10>>

\* the decimal digits of n >= 0, most significant first
Digits(n) == IF n < 10 THEN <<n>> ELSE Digits(n \div 10) \o <<n % 10>>

\* the literal json.dump writes for an int
IntToLit(n) == [neg |-> n < 0, digits |-> Digits(IF n < 0 THEN -n ELSE n)]

RECURSIVE DigitsValue(_)
DigitsValue(d) ==
    IF Len(d) = 0 THEN 0
    ELSE 10 * DigitsValue(SubSeq(d, 1, Len(d) - 1)) + d[Len(d)]

\* the int json.load reads from a literal
LitToInt(l) == IF l.neg THEN -DigitsValue(l.digits) ELSE DigitsValue(l.digits)

Member(k, n) == [haskey |-> TRUE, key |-> k, lit |-> IntToLit(n)]
Bare(n) == [haskey |-> FALSE, key |-> "", lit |-> IntToLit(n)]

\* line 99: json.dump(stock_data, f, indent=4)
json_dump(t) ==
    [kind |-> "object", elems |-> [i \in DOMAIN t |-> Member(t[i].item, t[i].qty)]]

\* line 81: json.load(f); JSONDecodeError for text that is not JSON
json_load(content) ==
    IF content.kind = "malformed"
    THEN [raised |-> "JSONDecodeError", kind |-> "none", elems |-> <<>>]
    ELSE [raised |-> "none", kind |-> content.kind,
          elems |-> [i \in DOMAIN content.elems |->
                        [haskey |-> content.elems[i].haskey,
                         key |-> content.elems[i].key,
                         val |-> LitToInt(content.elems[i].lit)]]]

RECURSIVE MergeFromSeq(_, _, _)
\* dict.update over a sequence: each element is inserted as it is reached,
\* and an element that is no key/value pair raises TypeError there
MergeFromSeq(t, elems, i) ==
    IF i > Len(elems) THEN [table |-> t, raised |-> "none"]
    ELSE IF ~elems[i].haskey THEN [table |-> t, raised |-> "TypeError"]
    ELSE MergeFromSeq(DictSet(t, elems[i].key, elems[i].val), elems, i + 1)

\* line 83: stock_data.update(data)
dict_update(t, data) ==
    IF data.kind = "number"
    THEN [table |-> t, raised |-> "TypeError"]   \* 'int' object is not iterable
    ELSE MergeFromSeq(t, data.elems, 1)

NotCleared(t) == t

\* lines 82 and 85: stock_data.clear()
Cleared(t) == <<>>

\* lines 79-85
load_data(t, files, file) ==
    IF files[file] = NoFile
    THEN \* open raises FileNotFoundError, handled at line 84
         Result(Cleared(t), "none", <<>>, <<>>, RetNone)
    ELSE LET data == json_load(files[file])
         IN  IF data.raised # "none"
             THEN Result(t, data.raised, <<>>, <<>>, RetNone)
             ELSE LET r == dict_update(Cleared(t), data)
                  IN  Result(r.table, r.raised, <<>>, <<>>, RetNone)

\* lines 98-99: the file is overwritten with the dump of the table
save_data(t, files, file) == [files EXCEPT ![file] = json_dump(t)]

----------------------------------------------------------------------------
(* The arguments an importing caller passes *)

Items == {"apple", "banana"}
MainItems == {"apple", "banana", "grapes", "orange"}

ItemArgs == {PyStr(i) : i \in Items} \cup {PyInt(123)}
AddQtys == {PyInt(-1), PyInt(0), PyInt(1), PyBool(TRUE), PyStr("5")}
RemoveQtys == {PyInt(-1), PyInt(1), PyInt(MaxQty + 1), PyStr("5")}
LogArgs == {NoLogs, LogList(<<LogEntry(PyStr("pear"), PyInt(4))>>)}
Thresholds == 0 .. (MaxQty + 1)

\* line 69, line 88: file="inventory.json"
DefaultFile == "inventory.json"
\* line 114: threshold=5
DefaultThreshold == 5

SavePaths == {DefaultFile}
Paths == {DefaultFile, "absent.json"}

\* files that something other than save_data wrote:  {"apple":  |  5  |  [["apple", 1], 5]
ExternalFiles ==
    { [kind |-> "malformed", elems |-> <<>>],
      [kind |-> "number", elems |-> <<Bare(5)>>],
      [kind |-> "array", elems |-> <<Member("apple", 1), Bare(5)>>] }

Call(name, item, qty, lg, file, threshold) ==
    [name |-> name, item |-> item, qty |-> qty, logs |-> lg,
     file |-> file, threshold |-> threshold]

NoCall == Call("(none)", PyNone, PyNone, NoLogs, "", 0)

ZeroAdded == [i \in MainItems |-> 0]

\* the call's effects become the state
Apply(r) ==
    /\ stock_data' = r.table
    /\ raised' = r.raised
    /\ out' = r.out
    /\ logs' = r.logs
    /\ ret' = r.ret
    /\ before' = stock_data

Within(t) == \A i \in DOMAIN t : t[i].qty <= MaxQty

\* history of the accepted adds since the empty table
NoteAdd(item, qty) ==
    /\ pure' = pure
    /\ added' = IF pure /\ IsStr(item) /\ IsNumber(qty) /\ qty.n >= 0
                THEN [added EXCEPT ![item.s] = @ + qty.n]
                ELSE added

NoteChange ==
    /\ pure' = (stock_data' = <<>>)
    /\ added' = ZeroAdded

----------------------------------------------------------------------------
(* The calls *)

DoAdd(item, qty, lg) ==
    /\ Apply(add_item(stock_data, item, qty, lg))
    /\ call' = Call("add_item", item, qty, lg, "", 0)
    /\ NoteAdd(item, qty)
    /\ UNCHANGED fs

DoRemove(item, qty) ==
    /\ Apply(remove_item(stock_data, item, qty))
    /\ call' = Call("remove_item", item, qty, NoLogs, "", 0)
    /\ NoteChange
    /\ UNCHANGED fs

DoGetQty(item) ==
    /\ Apply(Result(stock_data, "none", <<>>, <<>>, RetInt(get_qty(stock_data, item))))
    /\ call' = Call("get_qty", item, PyNone, NoLogs, "", 0)
    /\ UNCHANGED <<fs, added, pure>>

DoCheckLowItems(threshold) ==
    /\ Apply(Result(stock_data, "none", <<>>, <<>>,
                    RetList(check_low_items(stock_data, threshold))))
    /\ call' = Call("check_low_items", PyNone, PyNone, NoLogs, "", threshold)
    /\ UNCHANGED <<fs, added, pure>>

DoLoad(file) ==
    /\ Apply(load_data(stock_data, fs, file))
    /\ call' = Call("load_data", PyNone, PyNone, NoLogs, file, 0)
    /\ NoteChange
    /\ UNCHANGED fs

DoSave(file) ==
    /\ Apply(Result(stock_data, "none", <<>>, <<>>, RetNone))
    /\ fs' = save_data(stock_data, fs, file)
    /\ call' = Call("save_data", PyNone, PyNone, NoLogs, file, 0)
    /\ UNCHANGED <<added, pure>>

DoPrint ==
    /\ Apply(Result(stock_data, "none", print_data(stock_data), <<>>, RetNone))
    /\ call' = Call("print_data", PyNone, PyNone, NoLogs, "", 0)
    /\ UNCHANGED <<fs, added, pure>>

----------------------------------------------------------------------------
(* Imported: any call, any arguments *)

AddItem ==
    /\ pc = "imported"
    /\ \E item \in ItemArgs, qty \in AddQtys, lg \in LogArgs :
          /\ Within(add_item(stock_data, item, qty, lg).table)
          /\ DoAdd(item, qty, lg)
    /\ UNCHANGED pc

RemoveItem ==
    /\ pc = "imported"
    /\ \E item \in ItemArgs, qty \in RemoveQtys :
          /\ Within(remove_item(stock_data, item, qty).table)
          /\ DoRemove(item, qty)
    /\ UNCHANGED pc

GetQty ==
    /\ pc = "imported"
    /\ \E item \in ItemArgs : DoGetQty(item)
    /\ UNCHANGED pc

CheckLowItems ==
    /\ pc = "imported"
    /\ \E threshold \in Thresholds : DoCheckLowItems(threshold)
    /\ UNCHANGED pc

LoadData ==
    /\ pc = "imported"
    /\ \E file \in Paths : DoLoad(file)
    /\ UNCHANGED pc

SaveData ==
    /\ pc = "imported"
    /\ \E file \in SavePaths : DoSave(file)
    /\ UNCHANGED pc

PrintData ==
    /\ pc = "imported"
    /\ DoPrint
    /\ UNCHANGED pc

\* something else writes a file the program will load
ExternalWrite ==
    /\ pc = "imported"
    /\ \E file \in SavePaths, content \in ExternalFiles :
          fs' = [fs EXCEPT ![file] = content]
    /\ call' = Call("(external write)", PyNone, PyNone, NoLogs, "", 0)
    /\ raised' = "none"
    /\ out' = <<>>
    /\ ret' = RetNone
    /\ logs' = <<>>
    /\ before' = stock_data
    /\ UNCHANGED <<stock_data, pc, added, pure>>

----------------------------------------------------------------------------
(* Run as a script: main(), lines 135-146 *)

Main135 == pc = "L135" /\ DoAdd(PyStr("apple"), PyInt(10), NoLogs) /\ pc' = "L136"
Main136 == pc = "L136" /\ DoAdd(PyStr("banana"), PyInt(2), NoLogs) /\ pc' = "L137"
Main137 == pc = "L137" /\ DoAdd(PyStr("grapes"), PyInt(5), NoLogs) /\ pc' = "L139"
Main139 == pc = "L139" /\ DoRemove(PyStr("orange"), PyInt(1)) /\ pc' = "L141"
Main141 == pc = "L141" /\ DoGetQty(PyStr("apple")) /\ pc' = "L142"
Main142 == pc = "L142" /\ DoCheckLowItems(DefaultThreshold) /\ pc' = "L144"
Main144 == pc = "L144" /\ DoSave(DefaultFile) /\ pc' = "L145"
Main145 == pc = "L145" /\ DoLoad(DefaultFile) /\ pc' = "L146"
Main146 == pc = "L146" /\ DoPrint /\ pc' = "exit"

Main ==
    \/ Main135 \/ Main136 \/ Main137 \/ Main139 \/ Main141
    \/ Main142 \/ Main144 \/ Main145 \/ Main146

----------------------------------------------------------------------------

Init ==
    /\ stock_data = <<>>
    /\ fs = [p \in Paths |-> NoFile]
    /\ pc \in {"imported", "L135"}
    /\ call = NoCall
    /\ raised = "none"
    /\ out = <<>>
    /\ ret = RetNone
    /\ logs = <<>>
    /\ before = <<>>
    /\ added = ZeroAdded
    /\ pure = TRUE

Calls ==
    \/ AddItem \/ RemoveItem \/ GetQty \/ CheckLowItems
    \/ LoadData \/ SaveData \/ PrintData

\* the program alone: every file it loads is one save_data wrote, or is missing
Next == Calls \/ Main

Spec == Init /\ [][Next]_vars

\* the program and other writers of its files
NextEnv == Calls \/ Main \/ ExternalWrite

SpecEnv == Init /\ [][NextEnv]_vars

----------------------------------------------------------------------------
(* Properties *)

TextItems == {PyStr(i) : i \in MainItems}

Elements(l) == {l[i] : i \in DOMAIN l}

\* the keys a file holds
FileKeys(content) ==
    {content.elems[i].key : i \in {j \in DOMAIN content.elems : content.elems[j].haskey}}

\* C1: every quantity stored in the stock table is strictly greater than zero.
QtyPositive == \A i \in DOMAIN stock_data : stock_data[i].qty > 0

\* C2: while only add_item calls (and queries) have been made since the
\* empty table, get_qty(item) is the sum of the quantities the accepted
\* add_item calls gave for that item, for every text item.
CumulativeSum ==
    pure => \A i \in MainItems : get_qty(stock_data, PyStr(i)) = added[i]

CumulativeSumSeen ==
    /\ pure
    /\ call.name = "add_item"
    /\ call.item = PyStr("apple")
    /\ added["apple"] = 2
    /\ added["banana"] = 1
    /\ get_qty(before, PyStr("apple")) = 1

\* C3: add_item of a text item with a negative number prints the warning,
\* raises nothing and leaves the table and the supplied log list as they were.
NegativeAddIgnored ==
    (call.name = "add_item" /\ IsStr(call.item) /\ IsNumber(call.qty) /\ call.qty.n < 0)
    => /\ stock_data = before
       /\ raised = "none"
       /\ out = <<NegativeWarning(call.item)>>
       /\ logs = call.logs.list
       /\ \A i \in TextItems : get_qty(stock_data, i) = get_qty(before, i)

NegativeAddSeen ==
    /\ call.name = "add_item"
    /\ call.qty = PyInt(-1)
    /\ call.logs.given
    /\ HasKey(before, call.item)
    /\ out # <<>>

\* C4: add_item with an item that is not a str, or a qty that is not a number,
\* raises nothing, prints nothing, appends nothing to the supplied log list
\* and leaves the table as it was.
InvalidAddSilent ==
    (call.name = "add_item" /\ (~IsStr(call.item) \/ ~IsNumber(call.qty)))
    => /\ stock_data = before
       /\ raised = "none"
       /\ out = <<>>
       /\ logs = call.logs.list

InvalidAddSeen ==
    /\ call.name = "add_item"
    /\ call.logs.given
    /\ before # <<>>
    /\ \/ call.item = PyInt(123) /\ call.qty = PyInt(1)
       \/ call.item = PyStr("apple") /\ call.qty = PyStr("5")

\* C5: remove_item of a present item with a number qty such that the stored
\* quantity minus qty is <= 0 deletes the item: get_qty is 0, no threshold
\* makes check_low_items return it, the listing does not show it, and every
\* other item keeps its quantity and its place.
RemoveToZeroDeletes ==
    (/\ call.name = "remove_item"
     /\ HasKey(before, call.item)
     /\ IsNumber(call.qty)
     /\ get_qty(before, call.item) - call.qty.n <= 0)
    => /\ raised = "none"
       /\ get_qty(stock_data, call.item) = 0
       /\ \A th \in Thresholds \cup {DefaultThreshold} :
              call.item.s \notin Elements(check_low_items(stock_data, th))
       /\ \A l \in Elements(print_data(stock_data)) : l.item # call.item
       /\ stock_data = SelectSeq(before, LAMBDA e : e.item # call.item.s)

RemoveToZeroSeen ==
    /\ call.name = "remove_item"
    /\ call.item = PyStr("apple")
    /\ HasKey(before, PyStr("banana"))
    /\ \/ call.qty = PyInt(MaxQty + 1)
       \/ call.qty = PyInt(1) /\ get_qty(before, call.item) = 1
    /\ get_qty(before, call.item) > 0

\* C6: remove_item of an item that is not in the table raises nothing, prints
\* the warning and leaves the table as it was.
RemoveMissingWarns ==
    (call.name = "remove_item" /\ ~HasKey(before, call.item))
    => /\ raised = "none"
       /\ out = <<MissingWarning(call.item)>>
       /\ stock_data = before

RemoveMissingSeen ==
    /\ pc = "L141"
    /\ call.name = "remove_item"
    /\ call.item = PyStr("orange")
    /\ Len(before) = 3

\* C7: save_data leaves the table as it is, and a load_data of the same path
\* right after a save_data leaves the table as it was before the save.
SaveLoadRoundTrip ==
    [][ /\ call'.name = "save_data"
           => stock_data' = stock_data /\ raised' = "none"
        /\ (call.name = "save_data" /\ call'.name = "load_data" /\ call'.file = call.file)
           => stock_data' = stock_data /\ raised' = "none" ]_vars

SaveLoadSeen ==
    /\ pc = "L146"
    /\ call.name = "load_data"
    /\ get_qty(stock_data, PyStr("apple")) = 10
    /\ Len(stock_data) = 3

\* C8: load_data of a path with no file raises nothing and leaves the table
\* empty; a load_data that returns replaces the table by the file's content:
\* no item of the old table that the file lacks is left, and every item has
\* the quantity the file gives it.
LoadReplaces ==
    [][ call'.name = "load_data" =>
          /\ fs[call'.file] = NoFile => raised' = "none" /\ stock_data' = <<>>
          /\ (fs[call'.file] # NoFile /\ raised' = "none") =>
                /\ Keys(stock_data') = FileKeys(fs[call'.file])
                /\ \A i \in DOMAIN fs[call'.file].elems :
                      get_qty(stock_data', PyStr(fs[call'.file].elems[i].key))
                          = LitToInt(fs[call'.file].elems[i].lit) ]_vars

LoadMissingSeen ==
    /\ call.name = "load_data"
    /\ fs[call.file] = NoFile
    /\ before # <<>>
    /\ stock_data = <<>>

\* C9: check_low_items(threshold) returns the items whose quantity is strictly
\* below the threshold, once each, in the table's order, and leaves the table
\* as it was; in main(), get_qty("apple") is 10 and check_low_items() is
\* ["banana"].
LowItemsExact ==
    /\ call.name = "check_low_items" =>
          /\ stock_data = before
          /\ raised = "none"
          /\ ret.t = "list"
          /\ Elements(ret.l) =
                {stock_data[i].item :
                    i \in {j \in DOMAIN stock_data : stock_data[j].qty < call.threshold}}
          /\ \A i, j \in DOMAIN ret.l :
                i < j => IndexOf(stock_data, ret.l[i]) < IndexOf(stock_data, ret.l[j])
    /\ pc = "L142" => ret = RetInt(10)
    /\ pc = "L144" => ret = RetList(<<"banana">>)

LowItemsSeen ==
    /\ pc = "L144"
    /\ call.name = "check_low_items"
    /\ get_qty(stock_data, PyStr("grapes")) = call.threshold
    /\ ret.l = <<"banana">>

\* C10: a load_data that ends by raising leaves the table as it was before
\* the call.
FailedLoadKeepsTable ==
    (call.name = "load_data" /\ raised # "none") => stock_data = before

====
